---- MODULE Spec2Model ----
(***************************************************************************)
(* Quota aggregation engine of the management layer: the three provider    *)
(* fetch functions (Antigravity, Codex, Gemini-CLI) of the quota            *)
(* configuration module, and the pure payload-to-state computations they    *)
(* apply (buildCodexQuotaWindows, the Gemini-CLI bucket parsing step); the  *)
(* provider registry and the orchestrated pass over the credential catalog. *)
(*                                                                         *)
(* Optional values (undefined / null in the source) are sets with at most  *)
(* one element: {} is "missing", {v} is the value v.  Strings that may be  *)
(* missing use the sentinel Absent.  Fractions are in hundredths.          *)
(***************************************************************************)
EXTENDS Integers, Sequences, FiniteSets, TLC

\* Length of ANTIGRAVITY_QUOTA_URLS and of ANTIGRAVITY_LOAD_CODE_ASSIST_URLS.
NumQuotaUrls == 2
NumTierUrls == 2

Absent == "<absent>"
Null == "<null>"

\* a ?? b on values whose "nullish" form is Absent
Coalesce(a, b) == IF a # Absent THEN a ELSE b

\* a ?? b on optional values
OrElse(a, b) == IF a # {} THEN a ELSE b

Providers == {"antigravity", "codex", "gemini-cli"}

VARIABLES
  file,            \* the AuthFileItem the fetch function was called with
  pc,              \* position of the fetch function
  requests,        \* number of apiCallApi.request calls issued
  downloads,       \* number of authFilesApi.downloadText calls issued
  quotaIdx,        \* Antigravity: quota candidates requested so far
  answers,         \* Antigravity: what each quota candidate answered, in order
  lastError, lastStatus, priorityStatus, hadSuccess, groups,
  tierPc,          \* position of fetchAntigravitySubscriptionTier
  tierIdx,         \* tier candidates requested so far
  tierResult,      \* what subscriptionTierPromise resolved to
  response,        \* Codex / Gemini-CLI: the answer to the single request
  outcome          \* how the promise returned by the fetch function settled

fetchVars == <<file, pc, requests, downloads, quotaIdx, answers, lastError, lastStatus,
               priorityStatus, hadSuccess, groups, tierPc, tierIdx, tierResult,
               response, outcome>>

VARIABLES
  payload,         \* the CodexUsagePayload buildCodexQuotaWindows is called with
  windows,         \* the CodexQuotaWindow list it returns
  codexPc

codexVars == <<payload, windows, codexPc>>

VARIABLES
  buckets,         \* the buckets array of a Gemini-CLI quota payload
  parsedBuckets,   \* the GeminiCliParsedBucket list the parsing step yields
  geminiPc

geminiVars == <<buckets, parsedBuckets, geminiPc>>

VARIABLES
  catalog,         \* the credential catalog: one AuthFileItem per credential
  quotaStore,      \* QuotaStore: per provider, the state-map entry of each credential
  inflight,        \* <<provider, credential>>: fetchQuota dispatched and not settled
  dispatched,      \* per provider, the credentials dispatched by its latest pass
  passes           \* orchestrated passes started

passVars == <<catalog, quotaStore, inflight, dispatched, passes>>

\* QuickStartPage: the auth store and configuration it reads, the models
\* store, the apiKeysCache ref, the calls of fetchModels / loadApiKey with the
\* point each has reached, and the history of the cache since it was last
\* emptied (remote listings issued, assignments made, number of emptyings),
\* the calls whose remote listing was in flight when the cache was emptied,
\* and the call whose listing the cache holds (0: none)
VARIABLES
  mounted, connectionStatus, apiBase, configApiKeys, modelsLoaded,
  apiKeysCache, calls, started, listCalls, assignments, invalidations,
  userApiKey, staleListings, cacheWriter

pageVars == <<mounted, connectionStatus, apiBase, configApiKeys, modelsLoaded,
              apiKeysCache, calls, started, listCalls, assignments,
              invalidations, userApiKey, staleListings, cacheWriter>>

\* Claude Code configuration handlers: the content of ~/.claude/settings.json,
\* the last response written, the number of requests served, and the last
\* request (with the body of the last PUT and the response that preceded it)
VARIABLES
  settingsFile, configResponse, configRequests, configRequest

configVars == <<settingsFile, configResponse, configRequests, configRequest>>

\* resolveAntigravityProjectId: the outcome of the download of the credential
\* file, the point the call has reached, and the project id it resolved with
VARIABLES projectDownload, projectPc, resolvedProjectId

projectVars == <<projectDownload, projectPc, resolvedProjectId>>

vars == <<fetchVars, codexVars, geminiVars, passVars, pageVars, configVars, projectVars>>

-----------------------------------------------------------------------------
(* Inputs *)

\* (auth_index, authIndex) spellings of the credential's auth index
AuthIndexInputs ==
  { [auth_index |-> Absent, authIndex |-> Absent],
    [auth_index |-> "",     authIndex |-> "idx-b"],
    [auth_index |-> "idx-a", authIndex |-> Absent],
    [auth_index |-> Absent, authIndex |-> "idx-b"] }

Files ==
  { f \in [type : Providers, auth : AuthIndexInputs,
           accountId : {Absent, "acct"}, projectId : {Absent, "proj"}] :
      /\ f.type # "codex" => f.accountId = Absent
      /\ f.type # "gemini-cli" => f.projectId = Absent }

\* status codes an answer (or a thrown request error) can carry
ResponseStatuses == {199, 200, 299, 300, 403, 404, 500}

\* what a 2xx Antigravity quota body holds
QuotaBodies == {"unparseable", "no_models", "models_array", "no_groups", "groups"}

Message(src, cand) == [src |-> src, cand |-> cand]
NoMessage == Message("", 0)

\* an error thrown by apiCallApi.request: it may carry a status, and a message
ThrownErrors ==
  { [kind |-> "throw", status |-> {}, body |-> "", hasMessage |-> FALSE] } \cup
  { [kind |-> "throw", status |-> s, body |-> "", hasMessage |-> TRUE] :
      s \in {{}, {403}, {404}, {500}} }

IsSuccessStatusExact200(statusCode) == statusCode = 200

\* !(statusCode < 200 || statusCode >= 300)
IsSuccessStatus(statusCode) == ~(statusCode < 200 \/ statusCode >= 300)

\* a non-2xx answer is decided by its status alone; a 2xx answer by its body
QuotaAnswers ==
  { [kind |-> "response", status |-> {s}, body |-> b, hasMessage |-> TRUE] :
      s \in ResponseStatuses \cap (200..299), b \in QuotaBodies } \cup
  { [kind |-> "response", status |-> {s}, body |-> "", hasMessage |-> TRUE] :
      s \in ResponseStatuses \ (200..299) } \cup
  ThrownErrors

\* tier objects of a loadCodeAssist payload, given by their id (Absent: no tier
\* object or no string id)
TierPayloads == [paid : {Absent, "  ", "g1-pro-tier"}, current : {Absent, "free-tier"}]

TierAnswers ==
  { [kind |-> "response", ok |-> FALSE, parsed |-> FALSE, payload |-> [paid |-> Absent, current |-> Absent]],
    [kind |-> "throw",    ok |-> FALSE, parsed |-> FALSE, payload |-> [paid |-> Absent, current |-> Absent]],
    [kind |-> "response", ok |-> TRUE,  parsed |-> FALSE, payload |-> [paid |-> Absent, current |-> Absent]] } \cup
  { [kind |-> "response", ok |-> TRUE, parsed |-> TRUE, payload |-> p] : p \in TierPayloads }

\* the body of the answer to the single request: text that does not parse, a
\* payload without a `buckets` array, with an empty one, with buckets that all
\* lack a model id, or a payload with usable content
SingleBodies == {"unparseable", "no_buckets", "empty_buckets", "no_model_ids", "payload"}

\* Codex / Gemini-CLI: the answer to the single request
SingleAnswers ==
  { [kind |-> "response", status |-> {s}, body |-> b, hasMessage |-> TRUE] :
      s \in ResponseStatuses, b \in SingleBodies } \cup ThrownErrors

-----------------------------------------------------------------------------
(* Helpers of the fetch functions *)

\* normalizeAuthIndexValue: a non-empty auth index, or null
normalizeAuthIndexValue(raw) == IF raw \in {Absent, ""} THEN Null ELSE raw

\* file['auth_index'] ?? file.authIndex, normalized
AuthIndexOf(f) == normalizeAuthIndexValue(Coalesce(f.auth.auth_index, f.auth.authIndex))

\* resolveCodexChatgptAccountId / resolveGeminiCliProjectId: the identifier the
\* credential record yields, or null
resolveCodexChatgptAccountId(f) == IF f.accountId = Absent THEN Null ELSE f.accountId
resolveGeminiCliProjectId(f) == IF f.projectId = Absent THEN Null ELSE f.projectId

Pending == [state |-> "pending", groups |-> {}, subscriptionTier |-> Null,
            error |-> NoMessage, errorStatus |-> {}]

\* what the promise of a fetch function resolves to (mapped by buildSuccessState)
Resolved(g, tier) == [state |-> "success", groups |-> g, subscriptionTier |-> tier,
                      error |-> NoMessage, errorStatus |-> {}]

\* what it rejects with (mapped by buildErrorState(message, status))
Rejected(message, status) == [state |-> "error", groups |-> {}, subscriptionTier |-> Null,
                              error |-> message, errorStatus |-> status]

\* message || t('common.unknown_error')
OrUnknown(message) == IF message.src = "" THEN Message("unknown_error", 0) ELSE message

LatchPriorityNever(priority, status) == priority

LatchPriorityLastWins(priority, status) ==
  IF status \in {403, 404} THEN {status} ELSE priority

\* if (status === 403 || status === 404) priorityStatus ??= status
LatchPriority(priority, status) ==
  IF status \in {403, 404} THEN OrElse(priority, {status}) ELSE priority

\* priorityStatus ?? lastStatus
ReportedStatus(priority, last) == OrElse(priority, last)


\* !(!models || typeof models !== 'object' || Array.isArray(models))
ModelsUsable(body) == body \notin {"unparseable", "no_models", "models_array"}

\* buildAntigravityQuotaGroups(models): the groups built from candidate i's models
\* (none when no model of the payload falls into a group)
BuildGroups(body, i) == IF body = "groups" THEN {i} ELSE {}

Bookkeeping(e, s, p, h, g) ==
  [lastError |-> e, lastStatus |-> s, priorityStatus |-> p, hadSuccess |-> h, groups |-> g]

\* One iteration of the quota candidate loop, on the answer a of candidate i:
\* the bookkeeping it leaves, and whether it returns ("found") or goes on.
HandleQuotaAnswer(bk, a, i) ==
  IF a.kind = "throw"
  THEN \* catch (err)
    LET e == IF a.hasMessage THEN Message("thrown", i) ELSE NoMessage
        st == a.status
    IN  [next |-> "continue",
         bk |-> IF st # {}
                THEN Bookkeeping(e, st,
                                 LatchPriority(bk.priorityStatus, CHOOSE c \in st : TRUE),
                                 bk.hadSuccess, bk.groups)
                ELSE Bookkeeping(e, bk.lastStatus, bk.priorityStatus, bk.hadSuccess, bk.groups)]
  ELSE LET code == CHOOSE c \in a.status : TRUE IN
    IF ~IsSuccessStatus(code)
    THEN [next |-> "continue",
          bk |-> Bookkeeping(Message("api_call_error", i), {code},
                             LatchPriority(bk.priorityStatus, code),
                             bk.hadSuccess, bk.groups)]
    ELSE IF ~ModelsUsable(a.body)
    THEN [next |-> "continue",
          bk |-> Bookkeeping(Message("empty_models", i), bk.lastStatus, bk.priorityStatus,
                             TRUE, bk.groups)]
    ELSE LET g == BuildGroups(a.body, i) IN
      IF g = {}
      THEN [next |-> "continue",
            bk |-> Bookkeeping(Message("empty_models", i), bk.lastStatus, bk.priorityStatus,
                               TRUE, g)]
      ELSE [next |-> "found",
            bk |-> Bookkeeping(bk.lastError, bk.lastStatus, bk.priorityStatus, TRUE, g)]

AfterLoopAlwaysThrows(bk) == "throw"

AfterLoopPriorityThrows(bk) ==
  IF bk.hadSuccess /\ bk.priorityStatus = {} THEN "await_tier_empty" ELSE "throw"

\* after the loop: if (hadSuccess) { await tier; return empty groups } else throw
AfterLoop(bk) == IF bk.hadSuccess THEN "await_tier_empty" ELSE "throw"

LoopErrorLastStatusOnly(bk) == Rejected(OrUnknown(bk.lastError), bk.lastStatus)

\* throw createStatusError(lastError || t('common.unknown_error'), priorityStatus ?? lastStatus)
LoopError(bk) == Rejected(OrUnknown(bk.lastError), ReportedStatus(bk.priorityStatus, bk.lastStatus))

Trim(str) == IF str \in {"  ", " "} THEN "" ELSE str

extractTierIdUntrimmed(tier) == IF tier = Absent THEN Null ELSE tier

\* extractTierId: typeof id === 'string' ? id.trim() || null : null
extractTierId(tier) == IF tier = Absent \/ Trim(tier) = "" THEN Null ELSE Trim(tier)

\* extractTierId(paidTier) ?? extractTierId(currentTier), for the answer of one
\* tier candidate; Null when the candidate yields no tier id
TierIdOf(a) ==
  IF a.kind = "throw" \/ ~a.ok \/ ~a.parsed THEN Null
  ELSE IF extractTierId(a.payload.paid) # Null THEN extractTierId(a.payload.paid)
  ELSE extractTierId(a.payload.current)

TierJoinedNever(tpc) == FALSE

SettlesWithoutTier(tpc) == TRUE

\* await subscriptionTierPromise: the fetch goes on once the tier call is done
TierJoined(tpc) == tpc = "done"


MissingAuthIndexOnly(f) ==
  IF AuthIndexOf(f) = Null THEN "missing_auth_index" ELSE ""

\* The identifier checks a fetch function makes before any call: the t() key of
\* the error it throws, "" when the credential has what the provider needs.
MissingIdentifier(f) ==
  IF AuthIndexOf(f) = Null THEN "missing_auth_index"
  ELSE IF f.type = "codex" /\ resolveCodexChatgptAccountId(f) = Null THEN "missing_account_id"
  ELSE IF f.type = "gemini-cli" /\ resolveGeminiCliProjectId(f) = Null THEN "missing_project_id"
  ELSE ""

-----------------------------------------------------------------------------
(* The fetch functions *)

InitFetch ==
  /\ file \in Files
  /\ pc = "start"
  /\ requests = 0
  /\ downloads = 0
  /\ quotaIdx = 0
  /\ answers = <<>>
  /\ lastError = NoMessage
  /\ lastStatus = {}
  /\ priorityStatus = {}
  /\ hadSuccess = FALSE
  /\ groups = {}
  /\ tierPc = "idle"
  /\ tierIdx = 0
  /\ tierResult = Null
  /\ response = {}
  /\ outcome = Pending

AntigravityLocals == <<quotaIdx, answers, lastError, lastStatus, priorityStatus, hadSuccess,
                       groups, tierPc, tierIdx, tierResult>>

\* fetchAntigravityQuota, up to the download of the credential file
\* (resolveAntigravityProjectId)
StartAntigravity ==
  /\ UNCHANGED <<codexVars, geminiVars, passVars, pageVars, configVars, projectVars>>
  /\ pc = "start"
  /\ file.type = "antigravity"
  /\ IF MissingIdentifier(file) # ""
     THEN /\ outcome' = Rejected(Message(MissingIdentifier(file), 0), {})
          /\ pc' = "done"
          /\ UNCHANGED downloads
     ELSE /\ downloads' = downloads + 1
          /\ pc' = "download"
          /\ UNCHANGED outcome
  /\ UNCHANGED <<file, requests, response, AntigravityLocals>>

\* The download settled (resolveAntigravityProjectId never rejects).  The tier
\* call is made, which issues its first request, and the loop issues the request
\* of the first quota candidate.
DownloadDone ==
  /\ UNCHANGED <<codexVars, geminiVars, passVars, pageVars, configVars, projectVars>>
  /\ pc = "download"
  /\ tierPc' = "request"
  /\ tierIdx' = 1
  /\ quotaIdx' = 1
  /\ requests' = requests + 2
  /\ pc' = "quota"
  /\ UNCHANGED <<file, downloads, answers, lastError, lastStatus, priorityStatus, hadSuccess,
                 groups, tierResult, response, outcome>>

\* fetchAntigravitySubscriptionTier: the answer of tier candidate tierIdx
TierResponse ==
  /\ UNCHANGED <<codexVars, geminiVars, passVars, pageVars, configVars, projectVars>>
  /\ tierPc = "request"
  /\ \E a \in TierAnswers :
       IF TierIdOf(a) # Null
       THEN /\ tierResult' = TierIdOf(a)
            /\ tierPc' = "done"
            /\ UNCHANGED <<tierIdx, requests>>
       ELSE IF tierIdx < NumTierUrls
       THEN /\ tierIdx' = tierIdx + 1
            /\ requests' = requests + 1
            /\ UNCHANGED <<tierPc, tierResult>>
       ELSE /\ tierResult' = Null
            /\ tierPc' = "done"
            /\ UNCHANGED <<tierIdx, requests>>
  /\ UNCHANGED <<file, pc, downloads, quotaIdx, answers, lastError, lastStatus, priorityStatus,
                 hadSuccess, groups, response, outcome>>

\* fetchAntigravityQuota: the answer of quota candidate quotaIdx
QuotaResponse ==
  /\ UNCHANGED <<codexVars, geminiVars, passVars, pageVars, configVars, projectVars>>
  /\ pc = "quota"
  /\ \E a \in QuotaAnswers :
       LET r == HandleQuotaAnswer(Bookkeeping(lastError, lastStatus, priorityStatus,
                                              hadSuccess, groups), a, quotaIdx)
           more == r.next = "continue" /\ quotaIdx < NumQuotaUrls
           exit == IF r.next = "found" THEN "await_tier" ELSE AfterLoop(r.bk)
       IN  /\ answers' = Append(answers, a)
           /\ lastError' = r.bk.lastError
           /\ lastStatus' = r.bk.lastStatus
           /\ priorityStatus' = r.bk.priorityStatus
           /\ hadSuccess' = r.bk.hadSuccess
           /\ groups' = r.bk.groups
           /\ IF more
              THEN /\ quotaIdx' = quotaIdx + 1
                   /\ requests' = requests + 1
                   /\ UNCHANGED <<pc, outcome>>
              ELSE IF exit = "throw"
              THEN /\ outcome' = LoopError(r.bk)
                   /\ pc' = "done"
                   /\ UNCHANGED <<quotaIdx, requests>>
              ELSE /\ pc' = exit
                   /\ UNCHANGED <<quotaIdx, requests, outcome>>
  /\ UNCHANGED <<file, downloads, tierPc, tierIdx, tierResult, response>>

\* const subscriptionTier = await subscriptionTierPromise; return {...}
ReturnAntigravity ==
  /\ UNCHANGED <<codexVars, geminiVars, passVars, pageVars, configVars, projectVars>>
  /\ pc \in {"await_tier", "await_tier_empty"}
  /\ TierJoined(tierPc)
  /\ outcome' = Resolved(IF pc = "await_tier" THEN groups ELSE {}, tierResult)
  /\ pc' = "done"
  /\ UNCHANGED <<file, requests, downloads, response, AntigravityLocals>>

\* fetchCodexQuota / fetchGeminiCliQuota, up to the single request
StartSingle ==
  /\ UNCHANGED <<codexVars, geminiVars, passVars, pageVars, configVars, projectVars>>
  /\ pc = "start"
  /\ file.type \in {"codex", "gemini-cli"}
  /\ IF MissingIdentifier(file) # ""
     THEN /\ outcome' = Rejected(Message(MissingIdentifier(file), 0), {})
          /\ pc' = "done"
          /\ UNCHANGED requests
     ELSE /\ requests' = requests + 1
          /\ pc' = "request"
          /\ UNCHANGED outcome
  /\ UNCHANGED <<file, downloads, response, AntigravityLocals>>

GeminiBucketsKeepingUnnamed(body) == IF body \in {"payload", "no_model_ids"} THEN {1} ELSE {}

\* fetchGeminiCliQuota on a 2xx answer: buckets = Array.isArray(payload?.buckets)
\* ? payload.buckets : []; an empty list returns []; entries without a model id
\* are filtered out.  The set of buckets the fetch resolves with.
GeminiBuckets(body) == IF body = "payload" THEN {1} ELSE {}

SingleOutcomeStatusDropped(type, a) ==
  IF a.kind = "throw" THEN Rejected(Message("thrown", 0), a.status)
  ELSE IF ~IsSuccessStatus(CHOOSE c \in a.status : TRUE)
       THEN Rejected(Message("api_call_error", 0), {})
  ELSE IF type = "codex" /\ a.body = "unparseable"
       THEN Rejected(Message("empty_windows", 0), {})
  ELSE IF type = "gemini-cli" THEN Resolved(GeminiBuckets(a.body), Null)
  ELSE Resolved({}, Null)

\* What fetchCodexQuota / fetchGeminiCliQuota settle with on the answer a: a thrown
\* request error propagates; a non-2xx answer throws createStatusError(message,
\* statusCode); Codex throws on a payload that does not parse, Gemini-CLI
\* returns the buckets it could build.
SingleOutcome(type, a) ==
  IF a.kind = "throw" THEN Rejected(Message("thrown", 0), a.status)
  ELSE IF ~IsSuccessStatus(CHOOSE c \in a.status : TRUE)
       THEN Rejected(Message("api_call_error", 0), a.status)
  ELSE IF type = "codex" /\ a.body = "unparseable"
       THEN Rejected(Message("empty_windows", 0), {})
  ELSE IF type = "gemini-cli" THEN Resolved(GeminiBuckets(a.body), Null)
  ELSE Resolved({}, Null)

SingleResponse ==
  /\ UNCHANGED <<codexVars, geminiVars, passVars, pageVars, configVars, projectVars>>
  /\ pc = "request"
  /\ \E a \in SingleAnswers :
       /\ response' = IF a.kind = "response" THEN a.status ELSE {}
       /\ outcome' = SingleOutcome(file.type, a)
       /\ answers' = Append(answers, a)
  /\ pc' = "done"
  /\ UNCHANGED <<file, requests, downloads, quotaIdx, lastError, lastStatus, priorityStatus,
                 hadSuccess, groups, tierPc, tierIdx, tierResult>>

-----------------------------------------------------------------------------
(* Loosely-typed JSON values and the normalization library *)

\* a raw JSON value: absent (undefined / null), a number, a numeric string, or
\* any other string; n is the number it denotes
RawAbsent == [t |-> "absent", n |-> 0]
RawNumber(n) == [t |-> "number", n |-> n]
RawNumericString(n) == [t |-> "numeric-string", n |-> n]
RawText == [t |-> "text", n |-> 0]

\* a ?? b on raw JSON values
CoalesceRaw(a, b) == IF a.t # "absent" THEN a ELSE b

\* normalizeNumberValue: the number of a numeric or numeric-string input, else missing
normalizeNumberValue(v) == IF v.t \in {"number", "numeric-string"} THEN {v.n} ELSE {}

\* normalizeQuotaFraction (in hundredths): as normalizeNumberValue, and an
\* out-of-range input maps to missing
normalizeQuotaFraction(v) ==
  IF normalizeNumberValue(v) # {} /\ normalizeNumberValue(v) \subseteq 0..100
  THEN normalizeNumberValue(v) ELSE {}

\* normalizeStringValue: the trimmed string when non-empty, else missing
normalizeStringValue(v) == IF v = Absent \/ Trim(v) = "" THEN Absent ELSE Trim(v)

-----------------------------------------------------------------------------
(* buildCodexQuotaWindows *)

\* (used_percent, usedPercent) spellings of a window's explicit percentage
UsedPercentInputs ==
  { [used_percent |-> RawAbsent,     usedPercent |-> RawAbsent],
    [used_percent |-> RawNumber(-5), usedPercent |-> RawAbsent],
    [used_percent |-> RawNumber(150), usedPercent |-> RawAbsent],
    [used_percent |-> RawAbsent,     usedPercent |-> RawNumericString(50)],
    [used_percent |-> RawText,       usedPercent |-> RawAbsent] }

NoWindow == [present |-> FALSE, used |-> [used_percent |-> RawAbsent, usedPercent |-> RawAbsent],
             reset |-> Absent]

\* a CodexUsageWindow (or none); reset stands for its reset fields
WindowInputs ==
  {NoWindow} \cup [present : {TRUE}, used : UsedPercentInputs, reset : {Absent, "reset-at"}]

\* (limit_reached, limitReached) spellings of a rate-limit object's flag
LimitReachedInputs ==
  { [limit_reached |-> {},      limitReached |-> {}],
    [limit_reached |-> {TRUE},  limitReached |-> {}],
    [limit_reached |-> {FALSE}, limitReached |-> {}],
    [limit_reached |-> {},      limitReached |-> {TRUE}] }

NoRateLimit == [present |-> FALSE, reached |-> [limit_reached |-> {}, limitReached |-> {}],
                allowed |-> {}, primary_window |-> NoWindow, secondary_window |-> NoWindow]

RateLimitInputs ==
  {NoRateLimit} \cup
  [present : {TRUE}, reached : LimitReachedInputs, allowed : {{}, {TRUE}, {FALSE}},
   primary_window : WindowInputs, secondary_window : WindowInputs]

\* the code-review rate limit has a primary window only
CodeReviewLimitInputs == {r \in RateLimitInputs : r.secondary_window = NoWindow}

CodexPayloads == [rate_limit : RateLimitInputs, code_review_rate_limit : CodeReviewLimitInputs]

\* formatCodexResetLabel: a label from the window's reset fields, "-" without them
formatCodexResetLabel(window) == IF window.reset = Absent THEN "-" ELSE window.reset

IsLimitReachedIgnoringAllowed(limitReached, allowed) == limitReached = {TRUE}

\* Boolean(limitReached) || allowed === false
IsLimitReached(limitReached, allowed) == limitReached = {TRUE} \/ allowed = {FALSE}

\* usedPercentRaw ?? (isLimitReached && resetLabel !== '-' ? 100 : null)
UsedPercent(usedPercentRaw, isLimitReached, resetLabel) ==
  OrElse(usedPercentRaw, IF isLimitReached /\ resetLabel # "-" THEN {100} ELSE {})

\* addWindow(id, labelKey, window, limitReached, allowed), on the list ws
addWindow(ws, id, window, limitReached, allowed) ==
  IF ~window.present THEN ws
  ELSE LET resetLabel == formatCodexResetLabel(window)
           usedPercentRaw ==
             normalizeNumberValue(CoalesceRaw(window.used.used_percent, window.used.usedPercent))
       IN  Append(ws, [id |-> id,
                       usedPercent |-> UsedPercent(usedPercentRaw,
                                                   IsLimitReached(limitReached, allowed),
                                                   resetLabel),
                       resetLabel |-> resetLabel])

\* rateLimit?.limit_reached ?? rateLimit?.limitReached
LimitReachedOf(limit) == OrElse(limit.reached.limit_reached, limit.reached.limitReached)

buildCodexQuotaWindows(p) ==
  LET rateLimit == p.rate_limit
      codeReviewLimit == p.code_review_rate_limit
      w1 == addWindow(<<>>, "primary", rateLimit.primary_window,
                      LimitReachedOf(rateLimit), rateLimit.allowed)
      w2 == addWindow(w1, "secondary", rateLimit.secondary_window,
                      LimitReachedOf(rateLimit), rateLimit.allowed)
  IN  addWindow(w2, "code-review", codeReviewLimit.primary_window,
                LimitReachedOf(codeReviewLimit), codeReviewLimit.allowed)

InitCodex ==
  /\ payload \in CodexPayloads
  /\ windows = <<>>
  /\ codexPc = "call"

IdleCodex ==
  /\ payload = [rate_limit |-> NoRateLimit, code_review_rate_limit |-> NoRateLimit]
  /\ windows = <<>>
  /\ codexPc = "idle"

CallBuildCodexQuotaWindows ==
  /\ codexPc = "call"
  /\ windows' = buildCodexQuotaWindows(payload)
  /\ codexPc' = "done"
  /\ UNCHANGED <<payload, fetchVars, geminiVars, passVars, pageVars, configVars, projectVars>>

-----------------------------------------------------------------------------
(* The parsing step of fetchGeminiCliQuota *)

\* Most buckets the payload of one answer holds.
MaxBuckets == 2

\* (remainingFraction, remaining_fraction) spellings, in hundredths
FractionInputs ==
  { [remainingFraction |-> RawAbsent,      remaining_fraction |-> RawAbsent],
    [remainingFraction |-> RawNumber(50),  remaining_fraction |-> RawAbsent],
    [remainingFraction |-> RawAbsent,      remaining_fraction |-> RawNumericString(0)],
    [remainingFraction |-> RawNumber(-50), remaining_fraction |-> RawAbsent],
    [remainingFraction |-> RawNumber(150), remaining_fraction |-> RawAbsent],
    [remainingFraction |-> RawText,        remaining_fraction |-> RawAbsent] }

\* (remainingAmount, remaining_amount) spellings
AmountInputs ==
  { [remainingAmount |-> RawAbsent,     remaining_amount |-> RawAbsent],
    [remainingAmount |-> RawNumber(-1), remaining_amount |-> RawAbsent],
    [remainingAmount |-> RawAbsent,     remaining_amount |-> RawNumber(0)],
    [remainingAmount |-> RawNumber(5),  remaining_amount |-> RawAbsent] }

DroppedBucket == [modelId |-> Absent, tokenType |-> Absent,
                  fraction |-> [remainingFraction |-> RawAbsent, remaining_fraction |-> RawAbsent],
                  amount |-> [remainingAmount |-> RawAbsent, remaining_amount |-> RawAbsent],
                  resetTime |-> Absent]

BucketInputs ==
  {DroppedBucket} \cup
  [modelId : {"gemini-pro"}, tokenType : {"REQUESTS"}, fraction : FractionInputs,
   amount : AmountInputs, resetTime : {Absent, "reset-time"}]

BucketLists == UNION {[1..n -> BucketInputs] : n \in 0..MaxBuckets}

FallbackFractionOfAmount(remainingAmount, resetTime) ==
  IF remainingAmount # {}
  THEN IF \A n \in remainingAmount : n <= 0 THEN remainingAmount ELSE {}
  ELSE IF resetTime # Absent THEN {0} ELSE {}

FallbackFractionResetFirst(remainingAmount, resetTime) ==
  IF resetTime # Absent THEN {0}
  ELSE IF remainingAmount # {} /\ (\A n \in remainingAmount : n <= 0) THEN {0}
  ELSE {}

\* let fallbackFraction = null;
\* if (remainingAmount !== null) fallbackFraction = remainingAmount <= 0 ? 0 : null;
\* else if (resetTime) fallbackFraction = 0;
FallbackFraction(remainingAmount, resetTime) ==
  IF remainingAmount # {}
  THEN IF \A n \in remainingAmount : n <= 0 THEN {0} ELSE {}
  ELSE IF resetTime # Absent THEN {0} ELSE {}

\* the callback of buckets.map: the parsed bucket of one entry
ParseBucket(bucket) ==
  LET remainingFractionRaw ==
        normalizeQuotaFraction(CoalesceRaw(bucket.fraction.remainingFraction,
                                           bucket.fraction.remaining_fraction))
      remainingAmount ==
        normalizeNumberValue(CoalesceRaw(bucket.amount.remainingAmount,
                                         bucket.amount.remaining_amount))
      resetTime == normalizeStringValue(bucket.resetTime)
  IN  [modelId |-> normalizeStringValue(bucket.modelId),
       tokenType |-> normalizeStringValue(bucket.tokenType),
       remainingFraction |-> OrElse(remainingFractionRaw,
                                    FallbackFraction(remainingAmount, resetTime)),
       remainingAmount |-> remainingAmount,
       resetTime |-> resetTime]

HasModelId(bucket) == normalizeStringValue(bucket.modelId) # Absent

\* buckets.map(...).filter(bucket => bucket !== null): entries without a model id
\* are dropped, the others parsed, in order
ParseBuckets(bs) ==
  LET kept == SelectSeq(bs, HasModelId)
  IN  [k \in 1..Len(kept) |-> ParseBucket(kept[k])]

InitGemini ==
  /\ buckets \in BucketLists
  /\ parsedBuckets = <<>>
  /\ geminiPc = "call"

IdleGemini ==
  /\ buckets = <<>>
  /\ parsedBuckets = <<>>
  /\ geminiPc = "idle"

CallParseBuckets ==
  /\ geminiPc = "call"
  /\ parsedBuckets' = ParseBuckets(buckets)
  /\ geminiPc' = "done"
  /\ UNCHANGED <<buckets, fetchVars, codexVars, passVars, pageVars, configVars, projectVars>>

-----------------------------------------------------------------------------
(* Provider registry and orchestrated pass *)

\* Credentials in the catalog, and orchestrated passes started at most.
NumCredentials == 2
MaxPasses == 2

Credentials == 1..NumCredentials

\* what the filters read of an AuthFileItem: provider type and flags
CredentialKinds == [type : Providers, disabled : BOOLEAN, runtimeOnly : BOOLEAN]

\* isAntigravityFile / isCodexFile / isGeminiCliFile: the credential's provider type
isAntigravityFile(f) == f.type = "antigravity"
isCodexFile(f) == f.type = "codex"
isGeminiCliFile(f) == f.type = "gemini-cli"

\* isDisabledAuthFile / isRuntimeOnlyAuthFile: the credential's flags
isDisabledAuthFile(f) == f.disabled
isRuntimeOnlyAuthFile(f) == f.runtimeOnly

\* ANTIGRAVITY_CONFIG.filterFn
AntigravityFilterFn(f) == isAntigravityFile(f) /\ ~isDisabledAuthFile(f)

CodexFilterFnTypeOnly(f) == isCodexFile(f)

\* CODEX_CONFIG.filterFn
CodexFilterFn(f) == isCodexFile(f) /\ ~isDisabledAuthFile(f)

GeminiCliFilterFnKeepsRuntimeOnly(f) == isGeminiCliFile(f) /\ ~isDisabledAuthFile(f)

\* GEMINI_CLI_CONFIG.filterFn
GeminiCliFilterFn(f) ==
  isGeminiCliFile(f) /\ ~isRuntimeOnlyAuthFile(f) /\ ~isDisabledAuthFile(f)

\* config.filterFn of the registry entry of provider type
FilterFn(type, f) ==
  IF type = "antigravity" THEN AntigravityFilterFn(f)
  ELSE IF type = "codex" THEN CodexFilterFn(f)
  ELSE GeminiCliFilterFn(f)

\* a state-map entry; "idle" stands for no entry under the credential's key.
\* data is the groups / windows / buckets list, given by what it was built from.
QuotaState(status, data, error, errorStatus) ==
  [status |-> status, data |-> data, error |-> error, errorStatus |-> errorStatus]

NoEntry == QuotaState("idle", "", "", {})

buildLoadingStateAsError(type) == QuotaState("error", "", "", {})

\* buildLoadingState: { status: 'loading', groups | windows | buckets: [] }
buildLoadingState(type) == QuotaState("loading", "", "", {})

\* buildSuccessState(data): { status: 'success', ...data }
buildSuccessState(type, data) == QuotaState("success", data, "", {})

buildErrorStateStillLoading(type, message, status) == QuotaState("loading", "", message, status)

\* buildErrorState(message, status): { status: 'error', [], error, errorStatus }
buildErrorState(type, message, status) == QuotaState("error", "", message, status)

\* how config.fetchQuota settles: it resolves with data or rejects with a
\* message and an optional status (a configuration error carries none)
FetchSettlements ==
  { [ok |-> TRUE,  data |-> "quota-data", message |-> "", status |-> {}],
    [ok |-> TRUE,  data |-> "",           message |-> "", status |-> {}],
    [ok |-> FALSE, data |-> "", message |-> "missing_auth_index", status |-> {}],
    [ok |-> FALSE, data |-> "", message |-> "api_call_error", status |-> {404}] }

WriteEntryReplacingMap(map, c, state) == [d \in Credentials |-> IF d = c THEN state ELSE NoEntry]

\* setter(prev => ({ ...prev, [key]: state })): a single-key write
WriteEntry(map, c, state) == [map EXCEPT ![c] = state]

\* the credentials of the catalog matching the provider's filter
Targets(type) == {c \in Credentials : FilterFn(type, catalog[c])}

InitPass ==
  /\ catalog \in [Credentials -> CredentialKinds]
  /\ quotaStore = [p \in Providers |-> [c \in Credentials |-> NoEntry]]
  /\ inflight = {}
  /\ dispatched = [p \in Providers |-> {}]
  /\ passes = 0

IdlePass ==
  /\ catalog = [c \in Credentials |-> [type |-> "codex", disabled |-> TRUE, runtimeOnly |-> FALSE]]
  /\ quotaStore = [p \in Providers |-> [c \in Credentials |-> NoEntry]]
  /\ inflight = {}
  /\ dispatched = [p \in Providers |-> {}]
  /\ passes = 0

\* One orchestrated pass of a provider: Loading is written for every matching
\* credential, and fetchQuota is dispatched for all of them.
StartPass ==
  /\ passes < MaxPasses
  /\ \E p \in Providers :
       /\ \A c \in Credentials : <<p, c>> \notin inflight
       /\ quotaStore' = [quotaStore EXCEPT ![p] =
                           [c \in Credentials |-> IF c \in Targets(p)
                                                  THEN buildLoadingState(p)
                                                  ELSE quotaStore[p][c]]]
       /\ inflight' = inflight \cup {<<p, c>> : c \in Targets(p)}
       /\ dispatched' = [dispatched EXCEPT ![p] = Targets(p)]
  /\ passes' = passes + 1
  /\ UNCHANGED <<catalog, fetchVars, codexVars, geminiVars, pageVars, configVars, projectVars>>

\* The fetch of one credential settles: Success(buildSuccessState(data)) or
\* Error(message, status) is written under its key.
SettleFetch ==
  /\ \E pcr \in inflight : \E r \in FetchSettlements :
       LET p == pcr[1]
           c == pcr[2]
           state == IF r.ok THEN buildSuccessState(p, r.data)
                    ELSE buildErrorState(p, r.message, r.status)
       IN  /\ quotaStore' = [quotaStore EXCEPT ![p] = WriteEntry(quotaStore[p], c, state)]
           /\ inflight' = inflight \ {pcr}
  /\ UNCHANGED <<catalog, dispatched, passes, fetchVars, codexVars, geminiVars,
                 pageVars, configVars, projectVars>>

-----------------------------------------------------------------------------
(* QuickStartPage: the API-key cache *)

MaxCalls == 2

CallIds == 1..MaxCalls

ConnectionStatuses == {"connected", "disconnected"}

ApiBases == {"", "http://host/v0/management"}

\* an element of a key list: a string, or an object with 'api-key' / apiKey
StringItem(text) ==
  [isString |-> TRUE, text |-> text, dashed |-> Absent, camel |-> Absent]

ObjectItem(dashed, camel) ==
  [isString |-> FALSE, text |-> Absent, dashed |-> dashed, camel |-> camel]

\* a value held by config.apiKeys or answered by apiKeysApi.list()
KeyList(isArray, items) == [isArray |-> isArray, items |-> items]

KeyListInputs ==
  { KeyList(FALSE, <<>>),
    KeyList(TRUE, <<StringItem(" "), ObjectItem(Absent, Absent)>>),
    KeyList(TRUE, <<StringItem(" k1 "), StringItem("k1")>>),
    KeyList(TRUE, <<ObjectItem("k2", "k3"), ObjectItem(Absent, "k1")>>) }

\* apiKeysApi.list() resolves with a list or rejects
ListAnswers ==
  {[threw |-> TRUE, list |-> KeyList(FALSE, <<>>)]}
    \cup {[threw |-> FALSE, list |-> l] : l \in KeyListInputs}

\* String(value || '').trim()
TrimKey(str) == IF str = " " THEN "" ELSE IF str = " k1 " THEN "k1" ELSE str

\* typeof item === 'string' ? item : item?.['api-key'] ?? item?.apiKey ?? ''
ItemValue(item) ==
  IF item.isString THEN item.text ELSE Coalesce(item.dashed, Coalesce(item.camel, ""))

KeysOf(keys) == {keys[i] : i \in 1..Len(keys)}

RECURSIVE NormalizeItems(_, _)
NormalizeItems(items, keys) ==
  IF items = <<>> THEN keys
  ELSE LET trimmed == TrimKey(ItemValue(Head(items)))
       IN  NormalizeItems(Tail(items),
                          IF trimmed = "" \/ trimmed \in KeysOf(keys) THEN keys
                          ELSE Append(keys, trimmed))

normalizeApiKeyList(input) ==
  IF ~input.isArray THEN <<>> ELSE NormalizeItems(input.items, <<>>)

\* one call of fetchModels or loadApiKey: "returned" (fetchModels returned
\* before resolving keys), "list" (awaiting apiKeysApi.list()), "models"
\* (awaiting fetchModelsFromStore), "done"; keys is what
\* resolveApiKeysForModels returned to it
Call(kind, at, force, keys) == [kind |-> kind, pc |-> at, force |-> force, keys |-> keys]

NoCall == Call("none", "idle", FALSE, <<>>)

\* the part of the page that fetchModels and loadApiKey update
Current ==
  [cache |-> apiKeysCache, calls |-> calls, started |-> started,
   listCalls |-> listCalls, assignments |-> assignments,
   invalidations |-> invalidations, userApiKey |-> userApiKey,
   stale |-> staleListings, writer |-> cacheWriter]

Resolution(cache, keys, assigned, listing) ==
  [cache |-> cache, keys |-> keys, assigned |-> assigned, listing |-> listing]

ResolveFromConfigIgnoringCache(cache, config) ==
  IF normalizeApiKeyList(config) # <<>>
  THEN Resolution(normalizeApiKeyList(config), normalizeApiKeyList(config), TRUE, FALSE)
  ELSE IF cache # <<>> THEN Resolution(cache, cache, FALSE, FALSE)
  ELSE Resolution(cache, <<>>, FALSE, TRUE)

\* resolveApiKeysForModels up to its await: the cached list, else the keys of
\* the configuration (cached), else the remote listing is called
ResolveFromConfig(cache, config) ==
  IF cache # <<>> THEN Resolution(cache, cache, FALSE, FALSE)
  ELSE IF normalizeApiKeyList(config) # <<>>
  THEN Resolution(normalizeApiKeyList(config), normalizeApiKeyList(config), TRUE, FALSE)
  ELSE Resolution(cache, <<>>, FALSE, TRUE)

\* resolveApiKeysForModels after its await: a non-empty normalized listing is
\* cached and returned; an empty one is returned; a rejection returns []
ResolveFromListing(cache, answer) ==
  IF answer.threw THEN Resolution(cache, <<>>, FALSE, FALSE)
  ELSE IF normalizeApiKeyList(answer.list) # <<>>
  THEN Resolution(normalizeApiKeyList(answer.list), normalizeApiKeyList(answer.list),
                  TRUE, FALSE)
  ELSE Resolution(cache, <<>>, FALSE, FALSE)

\* the caller's code after `await resolveApiKeysForModels()`
AfterResolve(s, id, keys) ==
  IF s.calls[id].kind = "fetchModels"
  THEN [s EXCEPT !.calls[id].pc = "models", !.calls[id].keys = keys]
  ELSE [s EXCEPT !.calls[id].pc = "done", !.calls[id].keys = keys,
                 !.userApiKey = IF Len(keys) > 0 THEN keys[1] ELSE @]

Applied(s, r) ==
  [s EXCEPT !.cache = r.cache,
            !.assignments = IF r.assigned THEN @ + 1 ELSE @,
            !.listCalls = IF r.listing THEN @ + 1 ELSE @]

StartResolve(s, kind, force, config) ==
  LET id == s.started + 1
      r == ResolveFromConfig(s.cache, config)
      s1 == [Applied(s, r) EXCEPT !.started = id,
                                  !.calls[id] = Call(kind, "list", force, <<>>)]
  IN  IF r.listing THEN s1 ELSE AfterResolve(s1, id, r.keys)

\* apiKeysCache.current = []
Invalidate(s) ==
  [s EXCEPT !.cache = <<>>, !.listCalls = 0, !.assignments = 0,
            !.invalidations = @ + 1,
            !.stale = @ \cup {id \in DOMAIN s.calls : s.calls[id].pc = "list"},
            !.writer = 0]

fetchModels(s, forceRefresh, status, base, config) ==
  IF status # "connected" \/ base = ""
  THEN [s EXCEPT !.started = @ + 1,
                 !.calls[s.started + 1] = Call("fetchModels", "returned", forceRefresh, <<>>)]
  ELSE StartResolve(IF forceRefresh THEN Invalidate(s) ELSE s,
                    "fetchModels", forceRefresh, config)

loadApiKey(s, config) == StartResolve(s, "loadApiKey", FALSE, config)

\* the effect that depends on [connectionStatus]
AutoFetchEffect(s, status, base, config, loaded) ==
  IF status = "connected" /\ ~loaded THEN fetchModels(s, FALSE, status, base, config)
  ELSE s

\* the effect that depends on [connectionStatus, resolveApiKeysForModels]
LoadApiKeyEffect(s, status, config) ==
  IF status = "connected" THEN loadApiKey(s, config) ELSE s

Install(s) ==
  /\ apiKeysCache' = s.cache
  /\ calls' = s.calls
  /\ started' = s.started
  /\ listCalls' = s.listCalls
  /\ assignments' = s.assignments
  /\ invalidations' = s.invalidations
  /\ userApiKey' = s.userApiKey
  /\ staleListings' = s.stale
  /\ cacheWriter' = s.writer

InitPage ==
  /\ mounted = FALSE
  /\ connectionStatus \in ConnectionStatuses
  /\ apiBase \in ApiBases
  /\ configApiKeys \in KeyListInputs
  /\ modelsLoaded \in BOOLEAN
  /\ apiKeysCache = <<>>
  /\ calls = [id \in CallIds |-> NoCall]
  /\ started = 0
  /\ listCalls = 0
  /\ assignments = 0
  /\ invalidations = 0
  /\ userApiKey = ""
  /\ staleListings = {}
  /\ cacheWriter = 0

IdlePage ==
  /\ InitPage
  /\ connectionStatus = "disconnected"
  /\ apiBase = ""
  /\ configApiKeys = KeyList(FALSE, <<>>)
  /\ modelsLoaded = FALSE

\* the calls the two effects start when they run
EffectCalls(status, loaded) ==
  IF status # "connected" THEN 0 ELSE IF loaded THEN 1 ELSE 2

\* First render: both effects run, in the order they are declared.
Mount ==
  /\ ~mounted
  /\ started + EffectCalls(connectionStatus, modelsLoaded) <= MaxCalls
  /\ mounted' = TRUE
  /\ Install(LoadApiKeyEffect(
               AutoFetchEffect(Current, connectionStatus, apiBase, configApiKeys,
                               modelsLoaded),
               connectionStatus, configApiKeys))
  /\ UNCHANGED <<connectionStatus, apiBase, configApiKeys, modelsLoaded>>
  /\ UNCHANGED <<fetchVars, codexVars, geminiVars, passVars, configVars, projectVars>>

\* The auth store changes connectionStatus or apiBase; a change of
\* connectionStatus re-runs both effects.
AuthStoreChanges ==
  /\ mounted
  /\ \E status \in ConnectionStatuses : \E base \in ApiBases :
       /\ <<status, base>> # <<connectionStatus, apiBase>>
       /\ status # connectionStatus
            => started + EffectCalls(status, modelsLoaded) <= MaxCalls
       /\ connectionStatus' = status
       /\ apiBase' = base
       /\ Install(IF status = connectionStatus THEN Current
                  ELSE LoadApiKeyEffect(
                         AutoFetchEffect(Current, status, base, configApiKeys,
                                         modelsLoaded),
                         status, configApiKeys))
  /\ UNCHANGED <<mounted, configApiKeys, modelsLoaded>>
  /\ UNCHANGED <<fetchVars, codexVars, geminiVars, passVars, configVars, projectVars>>

\* config.apiKeys changes: resolveApiKeysForModels is re-created and the
\* loadApiKey effect re-runs.
ConfigChanges ==
  /\ mounted
  /\ started + EffectCalls(connectionStatus, TRUE) <= MaxCalls
  /\ \E config \in KeyListInputs \ {configApiKeys} :
       /\ configApiKeys' = config
       /\ Install(LoadApiKeyEffect(Current, connectionStatus, config))
  /\ UNCHANGED <<mounted, connectionStatus, apiBase, modelsLoaded>>
  /\ UNCHANGED <<fetchVars, codexVars, geminiVars, passVars, configVars, projectVars>>

\* The refresh button: fetchModels({ forceRefresh: true }).
ClickRefresh ==
  /\ mounted
  /\ started + 1 <= MaxCalls
  /\ Install(fetchModels(Current, TRUE, connectionStatus, apiBase, configApiKeys))
  /\ UNCHANGED <<mounted, connectionStatus, apiBase, configApiKeys, modelsLoaded>>
  /\ UNCHANGED <<fetchVars, codexVars, geminiVars, passVars, configVars, projectVars>>

\* apiKeysApi.list() settles for one of the calls awaiting it.
ListResponds ==
  /\ \E id \in CallIds : \E answer \in ListAnswers :
       /\ calls[id].pc = "list"
       /\ LET r == ResolveFromListing(apiKeysCache, answer)
          IN  Install(AfterResolve([Applied(Current, r) EXCEPT
                                      !.writer = IF r.assigned THEN id ELSE @],
                                   id, r.keys))
  /\ UNCHANGED <<mounted, connectionStatus, apiBase, configApiKeys, modelsLoaded>>
  /\ UNCHANGED <<fetchVars, codexVars, geminiVars, passVars, configVars, projectVars>>

\* fetchModelsFromStore settles for one of the calls awaiting it; the models
\* store holds models afterwards or not.
ModelsRespond ==
  /\ \E id \in CallIds : \E loaded \in BOOLEAN :
       /\ calls[id].pc = "models"
       /\ modelsLoaded' = loaded
       /\ calls' = [calls EXCEPT ![id].pc = "done"]
  /\ UNCHANGED <<mounted, connectionStatus, apiBase, configApiKeys, apiKeysCache,
                 started, listCalls, assignments, invalidations, userApiKey,
                 staleListings, cacheWriter>>
  /\ UNCHANGED <<fetchVars, codexVars, geminiVars, passVars, configVars, projectVars>>

-----------------------------------------------------------------------------
(* Claude Code configuration handlers *)

MaxRequests == 2

ModelKeys == {"opus_model", "sonnet_model", "haiku_model"}

\* the keys a settings file may hold: the three model fields and one other
KeyNames == ModelKeys \cup {"env"}

\* a JSON value under a key: none, a string, or a value that is not a string
JsonAbsent == [t |-> "absent", s |-> ""]

JsonString(s) == [t |-> "string", s |-> s]

JsonOther == [t |-> "other", s |-> ""]

NoEntries == [k \in KeyNames |-> JsonAbsent]

\* the content of the settings file: "missing" (no file), "null" (the JSON
\* text null), "object" (a JSON object with these entries), "malformed" (text
\* that is not valid JSON, e.g. an object with these entries and a trailing
\* comma, or an empty file)
SettingsFile(syntax, entries) == [syntax |-> syntax, entries |-> entries]

EntryInputs ==
  { e \in [KeyNames -> {JsonAbsent, JsonString("m0"), JsonOther}] :
      /\ e["sonnet_model"] # JsonOther
      /\ e["haiku_model"] # JsonOther
      /\ e["env"] # JsonString("m0") }

SettingsFiles ==
  {SettingsFile("missing", NoEntries), SettingsFile("null", NoEntries)}
    \cup {SettingsFile(sx, e) : sx \in {"object", "malformed"}, e \in EntryInputs}

\* what the operating system does during one request: os.UserHomeDir,
\* os.MkdirAll, os.ReadFile of an existing file, os.WriteFile.  A handler
\* returns at the first call that fails, so at most one of them fails.
Environments ==
  { env \in [home : BOOLEAN, mkdir : BOOLEAN, read : BOOLEAN, write : BOOLEAN] :
      Cardinality({f \in {"home", "mkdir", "read", "write"} : ~env[f]}) <= 1 }

FieldInputs == {"", " ", " m2 ", "m1"}

\* the request body: bound or not, and the three fields when bound (every
\* kind of value for opus_model, a blank and a plain one for sonnet_model,
\* an empty and a padded one for haiku_model)
PutInputs ==
  {[bound |-> FALSE, opus |-> "", sonnet |-> "", haiku |-> ""]}
    \cup [bound : {TRUE}, opus : FieldInputs, sonnet : {" ", "m1"}, haiku : {"", " m2 "}]

\* strings.TrimSpace
TrimSpace(s) == IF s = " " THEN "" ELSE IF s = " m2 " THEN "m2" ELSE s

ConfigResponse(op, code, opus, sonnet, haiku) ==
  [op |-> op, code |-> code, opus |-> opus, sonnet |-> sonnet, haiku |-> haiku]

NoResponse == ConfigResponse("none", 0, "", "", "")

\* the codes a request ends with when the handler panics: the recovery
\* middleware answers 500, or the connection is closed without an answer (0)
PanicCodes == {0, 500}

\* the map the handlers decode the file into
Decoded(failed, isNil, entries) == [failed |-> failed, isNil |-> isNil, entries |-> entries]

ReadExistingNotExistFails(f, env) ==
  IF f.syntax = "missing" \/ ~env.read THEN Decoded(TRUE, FALSE, NoEntries)
  ELSE IF f.syntax = "object" THEN Decoded(FALSE, FALSE, f.entries)
  ELSE Decoded(FALSE, f.syntax = "null", NoEntries)

\* os.ReadFile and json.Unmarshal into map[string]json.RawMessage: a read
\* error other than not-exist fails the request; a missing file or text that
\* does not decode gives an empty map; null leaves the map nil
ReadExisting(f, env) ==
  IF f.syntax # "missing" /\ ~env.read THEN Decoded(TRUE, FALSE, NoEntries)
  ELSE IF f.syntax = "object" THEN Decoded(FALSE, FALSE, f.entries)
  ELSE Decoded(FALSE, f.syntax = "null", NoEntries)

Untrimmed(input) ==
  [k \in ModelKeys |->
     IF k = "opus_model" THEN input.opus
     ELSE IF k = "sonnet_model" THEN input.sonnet ELSE input.haiku]

\* the model fields after strings.TrimSpace
Trimmed(input) ==
  [k \in ModelKeys |->
     TrimSpace(IF k = "opus_model" THEN input.opus
               ELSE IF k = "sonnet_model" THEN input.sonnet ELSE input.haiku)]

\* existing[key] = raw for a non-empty field, delete(existing, key) otherwise
UpdateModelFields(entries, input) ==
  [k \in KeyNames |->
     IF k \notin ModelKeys THEN entries[k]
     ELSE IF Trimmed(input)[k] # "" THEN JsonString(Trimmed(input)[k])
     ELSE JsonAbsent]

\* an assignment to an entry of the nil map
Panics(existing, input) ==
  existing.isNil /\ \E k \in ModelKeys : Trimmed(input)[k] # ""

\* json.Unmarshal(raw, &config.Field): a string is stored, anything else
\* leaves the field empty
FieldOf(entries, k) == IF entries[k].t = "string" THEN entries[k].s ELSE ""

\* a request as the handler meets it: the method, the body (of the latest
\* PUT), what the operating system does during it, and the response that
\* was written before it
ConfigRequest(op, input, env, after) ==
  [op |-> op, input |-> input, env |-> env, afterOp |-> after.op, afterCode |-> after.code]

NoRequest ==
  ConfigRequest("none", [bound |-> FALSE, opus |-> "", sonnet |-> "", haiku |-> ""],
                [home |-> TRUE, mkdir |-> TRUE, read |-> TRUE, write |-> TRUE], NoResponse)

InitConfig ==
  /\ settingsFile \in SettingsFiles
  /\ configResponse = NoResponse
  /\ configRequests = 0
  /\ configRequest = NoRequest

IdleConfig ==
  /\ InitConfig
  /\ settingsFile = SettingsFile("missing", NoEntries)

GetClaudeCodeConfig ==
  /\ configRequests < MaxRequests
  /\ configRequests' = configRequests + 1
  /\ \E env \in Environments :
       LET existing == ReadExisting(settingsFile, env)
       IN  /\ configRequest' = ConfigRequest("GET", configRequest.input, env, configResponse)
           /\ configResponse' =
                IF ~env.home THEN ConfigResponse("GET", 200, "", "", "")
                ELSE IF existing.failed THEN ConfigResponse("GET", 500, "", "", "")
                ELSE ConfigResponse("GET", 200,
                                    FieldOf(existing.entries, "opus_model"),
                                    FieldOf(existing.entries, "sonnet_model"),
                                    FieldOf(existing.entries, "haiku_model"))
  /\ UNCHANGED settingsFile
  /\ UNCHANGED <<fetchVars, codexVars, geminiVars, passVars, pageVars, projectVars>>

PutClaudeCodeConfig ==
  /\ configRequests < MaxRequests
  /\ configRequests' = configRequests + 1
  /\ \E input \in PutInputs : \E env \in Environments :
       LET existing == ReadExisting(settingsFile, env)
           answer(code) == ConfigResponse("PUT", code, "", "", "")
       IN  /\ configRequest' = ConfigRequest("PUT", input, env, configResponse)
           /\ IF ~input.bound
              THEN configResponse' = answer(400) /\ UNCHANGED settingsFile
              ELSE IF ~env.home \/ ~env.mkdir \/ existing.failed
              THEN configResponse' = answer(500) /\ UNCHANGED settingsFile
              ELSE IF Panics(existing, input)
              THEN /\ \E code \in PanicCodes : configResponse' = answer(code)
                   /\ UNCHANGED settingsFile
              ELSE IF ~env.write
              THEN /\ configResponse' = answer(500)
                   /\ settingsFile' \in {settingsFile, SettingsFile("malformed", NoEntries)}
              ELSE /\ configResponse' = answer(200)
                   /\ settingsFile' =
                        IF existing.isNil THEN SettingsFile("null", NoEntries)
                        ELSE SettingsFile("object",
                                          UpdateModelFields(existing.entries, input))
  /\ UNCHANGED <<fetchVars, codexVars, geminiVars, passVars, pageVars, projectVars>>

-----------------------------------------------------------------------------
(* resolveAntigravityProjectId *)

DEFAULT_ANTIGRAVITY_PROJECT_ID == "bamboo-precept-lgxtn"

\* a value under project_id / projectId: none, a blank string, or an id
IdValues(id) == {Absent, " ", id}

\* one of the three places the credential file may hold a project id: the
\* parsed value itself, its `installed` member, its `web` member; isObject
\* tells whether the member is a non-null object
Place(isObject, snake, camel) == [isObject |-> isObject, project_id |-> snake, projectId |-> camel]

NoPlace == Place(FALSE, Absent, Absent)

Places(name) ==
  {NoPlace} \cup { Place(TRUE, a, b) : a \in IdValues(name \o "_a"), b \in IdValues(name \o "_b") }

\* what authFilesApi.downloadText settles with: a rejection, or a text that is
\* blank, is not JSON, is the JSON null, or is a JSON value with the members
\* top (its own project_id / projectId), installed and web
Download(kind, top, installed, web) ==
  [kind |-> kind, top |-> top, installed |-> installed, web |-> web]

NoDownload == Download("none", NoPlace, NoPlace, NoPlace)

Downloads ==
  { Download(k, NoPlace, NoPlace, NoPlace) : k \in {"rejects", "blank", "malformed", "null"} } \cup
  { Download("value", top, installed, web) :
      top \in Places("top") \ {NoPlace}, installed \in Places("installed"), web \in Places("web") }

\* normalizeStringValue(place.project_id ?? place.projectId), for a place that
\* is an object; missing otherwise
PlaceProjectId(place) ==
  IF ~place.isObject THEN Absent
  ELSE normalizeStringValue(Coalesce(place.project_id, place.projectId))

\* The project id the function resolves with.  A rejected download, the
\* JSON.parse of text that is not JSON and the member access on a parsed null
\* all throw inside the try block and are caught.
resolveAntigravityProjectId(d) ==
  IF d.kind \in {"rejects", "blank", "malformed", "null"} THEN DEFAULT_ANTIGRAVITY_PROJECT_ID
  ELSE IF PlaceProjectId(d.top) # Absent THEN PlaceProjectId(d.top)
  ELSE IF PlaceProjectId(d.installed) # Absent THEN PlaceProjectId(d.installed)
  ELSE IF PlaceProjectId(d.web) # Absent THEN PlaceProjectId(d.web)
  ELSE DEFAULT_ANTIGRAVITY_PROJECT_ID

InitProject ==
  /\ projectDownload = NoDownload
  /\ projectPc \in {"start", "idle"}
  /\ resolvedProjectId = Absent

IdleProject ==
  /\ InitProject
  /\ projectPc = "idle"

\* the call, up to `await authFilesApi.downloadText(file.name)`
CallResolveProjectId ==
  /\ projectPc = "start"
  /\ projectPc' = "download"
  /\ UNCHANGED <<projectDownload, resolvedProjectId>>
  /\ UNCHANGED <<fetchVars, codexVars, geminiVars, passVars, pageVars, configVars>>

\* the download settles and the function returns
ProjectDownloadSettles ==
  /\ projectPc = "download"
  /\ \E d \in Downloads :
       /\ projectDownload' = d
       /\ resolvedProjectId' = resolveAntigravityProjectId(d)
  /\ projectPc' = "done"
  /\ UNCHANGED <<fetchVars, codexVars, geminiVars, passVars, pageVars, configVars>>

-----------------------------------------------------------------------------
(* Specifications *)

IdleFetch ==
  /\ InitFetch
  /\ file = [type |-> "codex", auth |-> [auth_index |-> Absent, authIndex |-> Absent],
             accountId |-> Absent, projectId |-> Absent]
  /\ pc = "start"

Init == InitFetch /\ IdleCodex /\ IdleGemini /\ IdlePass /\ IdlePage /\ IdleConfig /\ IdleProject

Next ==
  \/ StartAntigravity
  \/ DownloadDone
  \/ TierResponse
  \/ QuotaResponse
  \/ ReturnAntigravity
  \/ StartSingle
  \/ SingleResponse

Spec == Init /\ [][Next]_vars

\* every request of the authenticated-call primitive settles, and the code
\* between two awaits runs
FairFetch ==
  /\ WF_vars(StartAntigravity)
  /\ WF_vars(DownloadDone)
  /\ WF_vars(TierResponse)
  /\ WF_vars(QuotaResponse)
  /\ WF_vars(ReturnAntigravity)
  /\ WF_vars(StartSingle)
  /\ WF_vars(SingleResponse)

SpecFairFetch == Spec /\ FairFetch

InitCodexWindows ==
  InitCodex /\ IdleFetch /\ IdleGemini /\ IdlePass /\ IdlePage /\ IdleConfig /\ IdleProject

NextCodexWindows == CallBuildCodexQuotaWindows

SpecCodexWindows == InitCodexWindows /\ [][NextCodexWindows]_vars

InitGeminiBuckets ==
  InitGemini /\ IdleFetch /\ IdleCodex /\ IdlePass /\ IdlePage /\ IdleConfig /\ IdleProject

NextGeminiBuckets == CallParseBuckets

SpecGeminiBuckets == InitGeminiBuckets /\ [][NextGeminiBuckets]_vars

InitOrchestratedPass ==
  InitPass /\ IdleFetch /\ IdleCodex /\ IdleGemini /\ IdlePage /\ IdleConfig /\ IdleProject

NextOrchestratedPass == StartPass \/ SettleFetch

SpecOrchestratedPass == InitOrchestratedPass /\ [][NextOrchestratedPass]_vars

InitQuickStartPage ==
  InitPage /\ IdleFetch /\ IdleCodex /\ IdleGemini /\ IdlePass /\ IdleConfig /\ IdleProject

NextQuickStartPage ==
  \/ Mount
  \/ AuthStoreChanges
  \/ ConfigChanges
  \/ ClickRefresh
  \/ ListResponds
  \/ ModelsRespond

SpecQuickStartPage == InitQuickStartPage /\ [][NextQuickStartPage]_vars

InitClaudeCodeConfig ==
  InitConfig /\ IdleFetch /\ IdleCodex /\ IdleGemini /\ IdlePass /\ IdlePage /\ IdleProject

NextClaudeCodeConfig == GetClaudeCodeConfig \/ PutClaudeCodeConfig

SpecClaudeCodeConfig == InitClaudeCodeConfig /\ [][NextClaudeCodeConfig]_vars

InitProjectId ==
  /\ InitProject /\ projectPc = "start"
  /\ IdleFetch /\ IdleCodex /\ IdleGemini /\ IdlePass /\ IdlePage /\ IdleConfig

NextProjectId == CallResolveProjectId \/ ProjectDownloadSettles

SpecProjectId == InitProjectId /\ [][NextProjectId]_vars

-----------------------------------------------------------------------------
(* Properties of fetchAntigravityQuota *)

IsAntigravity == file.type = "antigravity"

\* the answer is a response with a 2xx status
Is2xx(a) == a.kind = "response" /\ a.status # {} /\ a.status \subseteq 200..299

\* the answer is a 2xx response whose models object builds at least one group
BuildsGroups(a) == Is2xx(a) /\ a.body = "groups"

Least(S) == CHOOSE i \in S : \A j \in S : i <= j
Greatest(S) == CHOOSE i \in S : \A j \in S : j <= i

\* positions of the answers (responses or thrown errors) carrying 403 or 404
PriorityPositions(log) == {i \in 1..Len(log) : log[i].status \cap {403, 404} # {}}

\* positions of the answers carrying any status
StatusPositions(log) == {i \in 1..Len(log) : log[i].status # {}}

\* the status of the first 403/404, else the last status seen, else none
FirstPriorityElseLast(log) ==
  IF PriorityPositions(log) # {} THEN log[Least(PriorityPositions(log))].status
  ELSE IF StatusPositions(log) # {} THEN log[Greatest(StatusPositions(log))].status
  ELSE {}

\* C1: when candidate i answers 2xx with models that build groups, and every
\* earlier candidate failed (any status, a thrown error, or empty models), the
\* fetch resolves with candidate i's non-empty groups, whatever priority status
\* an earlier candidate latched.
C1_LaterSuccessWins ==
  (IsAntigravity /\ pc = "done") =>
    \A i \in 1..Len(answers) :
      (BuildsGroups(answers[i]) /\ \A j \in 1..(i - 1) : ~BuildsGroups(answers[j]))
        => /\ outcome.state = "success"
           /\ outcome.groups = {i}
           /\ outcome.groups # {}

C1_Witness ==
  /\ IsAntigravity /\ pc = "done"
  /\ Len(answers) = 2
  /\ answers[1].kind = "response" /\ answers[1].status = {404}
  /\ BuildsGroups(answers[2])
  /\ priorityStatus = {404}
  /\ outcome.state = "success" /\ outcome.groups = {2}

\* C2: when no candidate answers 2xx the fetch fails, and the error carries the
\* status of the first candidate that answered 403 or 404 if any did, else the
\* last status seen.
C2_PriorityStatusReported ==
  (IsAntigravity /\ pc = "done" /\ answers # <<>>
     /\ \A i \in 1..Len(answers) : ~Is2xx(answers[i]))
    => /\ outcome.state = "error"
       /\ outcome.errorStatus = FirstPriorityElseLast(answers)

C2_Witness ==
  /\ IsAntigravity /\ pc = "done"
  /\ Len(answers) = 2
  /\ answers[1].status = {403} /\ answers[2].status = {404}
  /\ outcome.state = "error" /\ outcome.errorStatus = {403}

\* some candidate answered 2xx with a body that has no models key, and no
\* candidate yielded models that build groups
NoModelsAndNoGroups ==
  /\ \E i \in 1..Len(answers) : Is2xx(answers[i]) /\ answers[i].body = "no_models"
  /\ \A i \in 1..Len(answers) : ~BuildsGroups(answers[i])

\* C3 as stated: a 2xx answer without a models key, and no candidate with valid
\* models, ends the fetch in Error.
C3_NoModelsIsError ==
  (IsAntigravity /\ pc = "done" /\ NoModelsAndNoGroups) => outcome.state = "error"

\* C3 as amended: in that case the fetch resolves successfully with an empty
\* group list and the resolved tier (hadSuccess was set by the 2xx answer).
C3_NoModelsIsEmptySuccess ==
  (IsAntigravity /\ pc = "done" /\ NoModelsAndNoGroups)
    => outcome = Resolved({}, tierResult)

C3_Witness ==
  /\ IsAntigravity /\ pc = "done" /\ NoModelsAndNoGroups
  /\ Len(answers) = NumQuotaUrls
  /\ outcome.state = "success" /\ outcome.groups = {}

\* C4: with every candidate tried and none producing groups, the fetch resolves
\* with empty groups and the resolved tier iff some candidate answered 2xx, and
\* fails iff none did.
C4_EmptySuccessIffHadSuccess ==
  (IsAntigravity /\ pc = "done" /\ Len(answers) = NumQuotaUrls
     /\ \A i \in 1..Len(answers) : ~BuildsGroups(answers[i]))
    => /\ (\E i \in 1..Len(answers) : Is2xx(answers[i])) <=> outcome = Resolved({}, tierResult)
       /\ (\A i \in 1..Len(answers) : ~Is2xx(answers[i])) <=> outcome.state = "error"
       /\ hadSuccess <=> \E i \in 1..Len(answers) : Is2xx(answers[i])

C4_Witness ==
  /\ IsAntigravity /\ pc = "done" /\ Len(answers) = NumQuotaUrls
  /\ answers[1].status = {404}
  /\ Is2xx(answers[NumQuotaUrls]) /\ answers[NumQuotaUrls].body = "no_groups"
  /\ priorityStatus = {404}
  /\ outcome = Resolved({}, tierResult)

\* C5 as stated: the tier call is outstanding before the first quota request is
\* awaited, and whenever the fetch settles after the loop ran (with a result or
\* with an error) the tier call and the quota loop have both completed.
C5_BothCompleteOnEverySettle ==
  [][ /\ (IsAntigravity /\ quotaIdx' >= 1) => tierIdx' >= 1
      /\ (IsAntigravity /\ quotaIdx >= 1 /\ outcome = Pending /\ outcome' # Pending)
           => (tierPc' = "done" /\ pc' = "done") ]_vars

\* C5 as amended: the tier call is outstanding before the first quota request
\* is awaited, and whenever the fetch resolves successfully (with groups or with
\* empty groups) the tier call and the quota loop have both completed before
\* the result is delivered.
C5_BothCompleteOnSuccess ==
  [][ /\ (IsAntigravity /\ quotaIdx' >= 1) => tierIdx' >= 1
      /\ (IsAntigravity /\ outcome = Pending /\ outcome'.state = "success")
           => /\ tierPc = "done" /\ tierPc' = "done"
              /\ pc \in {"await_tier", "await_tier_empty"} /\ pc' = "done"
              /\ outcome'.subscriptionTier = tierResult ]_vars

C5_Witness ==
  /\ IsAntigravity /\ pc = "done"
  /\ outcome.state = "success"
  /\ tierPc = "done" /\ tierIdx = NumTierUrls
  /\ quotaIdx = NumQuotaUrls

\* what the quota answers alone settle the fetch with, from candidate i on
\* with the bookkeeping bk: the loop and the code after it, the tier left out
RECURSIVE QuotaOnly(_, _, _)
QuotaOnly(bk, as, i) ==
  IF i > Len(as)
  THEN IF AfterLoop(bk) = "throw" THEN LoopError(bk) ELSE Resolved({}, Null)
  ELSE LET r == HandleQuotaAnswer(bk, as[i], i)
       IN  IF r.next = "found" THEN Resolved(r.bk.groups, Null)
           ELSE QuotaOnly(r.bk, as, i + 1)

TierErased(o) == [o EXCEPT !.subscriptionTier = Null]

\* C19: fetchAntigravitySubscriptionTier never fails and resolves to null or
\* to a non-blank tier id, whatever the tier candidates answer; the settlement
\* of fetchAntigravityQuota (success or error, groups, message, status) is
\* decided by the credential and the quota answers alone, and a success
\* carries the tier the tier call resolved to.
C19_TierNeverDecidesOutcome ==
  /\ tierPc # "done" => tierResult = Null
  /\ tierPc = "done" => tierResult \notin {Absent, "", " ", "  "}
  /\ (IsAntigravity /\ pc = "done")
       => /\ TierErased(outcome) =
               IF MissingIdentifier(file) # ""
               THEN Rejected(Message(MissingIdentifier(file), 0), {})
               ELSE QuotaOnly(Bookkeeping(NoMessage, {}, {}, FALSE, {}), answers, 1)
          /\ outcome.state = "success"
               => tierPc = "done" /\ outcome.subscriptionTier = tierResult

C19_Witness ==
  /\ IsAntigravity
  /\ pc = "done"
  /\ tierPc = "done"
  /\ tierIdx = NumTierUrls
  /\ tierResult = Null
  /\ outcome.state = "success"
  /\ outcome.groups # {}

\* C21: the quota candidates are requested one at a time in list order (the
\* next one only after the current one has answered), and once a candidate has
\* answered 2xx with models that build a group no later candidate is requested.
C21_OneAtATimeInOrder ==
  [][ IsAntigravity =>
        /\ quotaIdx' \in {quotaIdx, quotaIdx + 1}
        /\ quotaIdx' = quotaIdx + 1 => Len(answers') = quotaIdx
        /\ pc' = "quota" => Len(answers') = quotaIdx' - 1
        /\ \A i \in 1..Len(answers') :
             BuildsGroups(answers'[i])
               => /\ i = Len(answers')
                  /\ quotaIdx' = i
                  /\ pc' \in {"await_tier", "done"} ]_vars

C21_Witness ==
  /\ IsAntigravity /\ pc = "done"
  /\ Len(answers) = 1
  /\ answers[1].status = {299} /\ BuildsGroups(answers[1])
  /\ quotaIdx = 1
  /\ quotaIdx < NumQuotaUrls
  /\ outcome.state = "success"

\* the quota candidate answered in this step, with a thrown error
ThrownNow ==
  /\ IsAntigravity
  /\ Len(answers') = Len(answers) + 1
  /\ answers'[Len(answers')].kind = "throw"

\* C22: a thrown request error never aborts the fetch: its message becomes
\* lastError, its status (when it carries one) becomes lastStatus and latches
\* priorityStatus on the first 403/404, hadSuccess and groups are untouched, and
\* the next candidate is requested; after the last candidate the code after the
\* loop decides.
C22_ThrowIsFolded ==
  [][ ThrownNow =>
        LET a == answers'[Len(answers')] IN
        /\ lastError' = IF a.hasMessage THEN Message("thrown", quotaIdx) ELSE NoMessage
        /\ lastStatus' = IF a.status # {} THEN a.status ELSE lastStatus
        /\ priorityStatus' =
             IF a.status \cap {403, 404} # {} /\ priorityStatus = {} THEN a.status
             ELSE priorityStatus
        /\ hadSuccess' = hadSuccess
        /\ groups' = groups
        /\ IF quotaIdx < NumQuotaUrls
           THEN /\ pc' = "quota"
                /\ quotaIdx' = quotaIdx + 1
                /\ requests' = requests + 1
                /\ outcome' = Pending
           ELSE /\ hadSuccess => (pc' = "await_tier_empty" /\ outcome' = Pending)
                /\ ~hadSuccess => (pc' = "done" /\ outcome'.state = "error") ]_vars

C22_Witness ==
  /\ IsAntigravity /\ pc = "done"
  /\ Len(answers) = 2
  /\ answers[1].kind = "throw" /\ answers[1].status = {404}
  /\ priorityStatus = {404} /\ lastStatus = {404}
  /\ BuildsGroups(answers[2])
  /\ outcome.state = "success" /\ outcome.groups = {2}

\* the fetch failed with an error that carries a status and the message of a
\* candidate
FailedWithStatus ==
  /\ IsAntigravity /\ pc = "done"
  /\ outcome.state = "error"
  /\ outcome.errorStatus # {}
  /\ outcome.error.cand \in 1..Len(answers)

\* C27 as stated: when the fetch fails, the message and the status of the
\* error describe the same candidate.
C27_MessageAndStatusOfSameCandidate ==
  FailedWithStatus => answers[outcome.error.cand].status = outcome.errorStatus

\* what the last answer of the log recorded as lastError
LastMessage(log) ==
  IF log[Len(log)].kind = "throw"
  THEN IF log[Len(log)].hasMessage THEN Message("thrown", Len(log)) ELSE NoMessage
  ELSE Message("api_call_error", Len(log))

\* C27 as amended: when the fetch fails after its candidates, the message is
\* the one recorded for the last candidate (the unknown-error text when that
\* candidate left none) and the status is that of the first candidate that
\* carried 403 or 404, else the last status seen: the two describe the same
\* candidate only when that candidate is the last one.
C27_LastMessageWithPriorityStatus ==
  (IsAntigravity /\ pc = "done" /\ outcome.state = "error" /\ answers # <<>>)
    => /\ outcome.error = OrUnknown(LastMessage(answers))
       /\ outcome.errorStatus = FirstPriorityElseLast(answers)
       /\ Len(answers) = NumQuotaUrls

C27_Witness ==
  /\ IsAntigravity /\ pc = "done"
  /\ Len(answers) = 2
  /\ answers[1].kind = "response" /\ answers[1].status = {403}
  /\ answers[2].kind = "response" /\ answers[2].status = {500}
  /\ outcome.state = "error"
  /\ outcome.errorStatus = {403}
  /\ outcome.error = Message("api_call_error", 2)

-----------------------------------------------------------------------------
(* Properties common to the fetch functions *)

\* the credential lacks an identifier its provider requires
LacksIdentifier(f) ==
  \/ AuthIndexOf(f) = Null
  \/ f.type = "codex" /\ f.accountId = Absent
  \/ f.type = "gemini-cli" /\ f.projectId = Absent

\* C6: for a credential lacking a required identifier the fetch fails and no
\* request and no credential-file download is ever issued.
C6_NoCallWithoutIdentifier ==
  LacksIdentifier(file)
    => /\ requests = 0 /\ downloads = 0
       /\ pc \in {"start", "done"}
       /\ pc = "done" => outcome.state = "error"

C6_Witness ==
  /\ file.type = "codex" /\ AuthIndexOf(file) # Null /\ file.accountId = Absent
  /\ pc = "done" /\ outcome.state = "error" /\ requests = 0

\* C7: Codex and Gemini-CLI issue one request per invocation (never a second);
\* a non-2xx status fails the fetch with exactly that status, and a 2xx status
\* never does.
C7_SingleRequestStatus ==
  file.type \in {"codex", "gemini-cli"}
    => /\ requests <= 1
       /\ (pc = "done" /\ ~LacksIdentifier(file)) => requests = 1
       /\ (pc = "done" /\ response # {})
            => \A c \in response :
                 /\ c \notin 200..299
                      => (outcome.state = "error" /\ outcome.errorStatus = {c})
                 /\ c \in 200..299 => outcome.errorStatus = {}
                 /\ (c \in 200..299 /\ file.type = "gemini-cli") => outcome.state = "success"

\* C28: fetchGeminiCliQuota never fails on a 2xx answer: a body that does not
\* parse, has no `buckets` array, has an empty one, or has only entries without
\* a model id resolves with an empty bucket list; fetchCodexQuota fails, with no
\* status, on a 2xx answer whose payload does not parse.
C28_GeminiResolvesCodexFails ==
  (pc = "done" /\ response # {} /\ response \subseteq 200..299)
    => /\ file.type = "gemini-cli"
            => /\ outcome.state = "success"
               /\ answers[1].body \in SingleBodies \ {"payload"}
                    => outcome = Resolved({}, Null)
       /\ (file.type = "codex" /\ answers[1].body = "unparseable")
            => /\ outcome.state = "error"
               /\ outcome.errorStatus = {}
               /\ outcome.error = Message("empty_windows", 0)

C28_Witness ==
  /\ file.type = "gemini-cli" /\ pc = "done" /\ requests = 1
  /\ response = {200}
  /\ answers[1].body = "no_model_ids"
  /\ outcome = Resolved({}, Null)

C7_Witness ==
  /\ file.type = "codex" /\ pc = "done" /\ requests = 1
  /\ response = {300}
  /\ outcome.state = "error" /\ outcome.errorStatus = {300}

-----------------------------------------------------------------------------
(* Properties of buildCodexQuotaWindows *)

\* the rate-limit object owning the window with this id, and the window
OwnerOf(id) == IF id = "code-review" THEN payload.code_review_rate_limit ELSE payload.rate_limit
WindowOf(id) ==
  IF id = "primary" THEN payload.rate_limit.primary_window
  ELSE IF id = "secondary" THEN payload.rate_limit.secondary_window
  ELSE payload.code_review_rate_limit.primary_window

\* the window has neither used_percent nor usedPercent
NoExplicitPercent(window) ==
  window.used.used_percent.t = "absent" /\ window.used.usedPercent.t = "absent"

\* the rate-limit object reports this value of limit_reached (under either spelling)
ReportsLimitReached(limit, value) ==
  OrElse(limit.reached.limit_reached, limit.reached.limitReached) = {value}

\* C8 as stated: without an explicit percentage, usedPercent is 100 when the
\* owner reports limit_reached=true and the reset label is not "-", and null
\* whenever the owner reports limit_reached=false, whatever its other fields.
C8_NullWheneverNotLimitReached ==
  codexPc = "done" =>
    \A k \in 1..Len(windows) :
      NoExplicitPercent(WindowOf(windows[k].id)) =>
        /\ (ReportsLimitReached(OwnerOf(windows[k].id), TRUE) /\ windows[k].resetLabel # "-")
             => windows[k].usedPercent = {100}
        /\ ReportsLimitReached(OwnerOf(windows[k].id), FALSE)
             => windows[k].usedPercent = {}

\* C8 as amended: ... and null whenever the owner reports limit_reached=false
\* and its `allowed` is not false; with allowed=false and a reset label other
\* than "-" it is 100.
C8_NullUnlessNotAllowed ==
  codexPc = "done" =>
    \A k \in 1..Len(windows) :
      NoExplicitPercent(WindowOf(windows[k].id)) =>
        /\ (ReportsLimitReached(OwnerOf(windows[k].id), TRUE) /\ windows[k].resetLabel # "-")
             => windows[k].usedPercent = {100}
        /\ (ReportsLimitReached(OwnerOf(windows[k].id), FALSE)
              /\ OwnerOf(windows[k].id).allowed # {FALSE})
             => windows[k].usedPercent = {}
        /\ (ReportsLimitReached(OwnerOf(windows[k].id), FALSE)
              /\ OwnerOf(windows[k].id).allowed = {FALSE}
              /\ windows[k].resetLabel # "-")
             => windows[k].usedPercent = {100}

C8_Witness ==
  /\ codexPc = "done"
  /\ \E k \in 1..Len(windows) :
       /\ NoExplicitPercent(WindowOf(windows[k].id))
       /\ ReportsLimitReached(OwnerOf(windows[k].id), FALSE)
       /\ OwnerOf(windows[k].id).allowed = {FALSE}
       /\ windows[k].resetLabel # "-"
       /\ windows[k].usedPercent = {100}
  /\ \E k \in 1..Len(windows) :
       /\ NoExplicitPercent(WindowOf(windows[k].id))
       /\ ReportsLimitReached(OwnerOf(windows[k].id), FALSE)
       /\ OwnerOf(windows[k].id).allowed = {TRUE}
       /\ windows[k].resetLabel # "-"
       /\ windows[k].usedPercent = {}

\* C9: every window's usedPercent is null or a number within [0,100].
C9_UsedPercentInRange ==
  codexPc = "done" =>
    \A k \in 1..Len(windows) :
      windows[k].usedPercent = {} \/ windows[k].usedPercent \subseteq 0..100

-----------------------------------------------------------------------------
(* Properties of the Gemini-CLI parsing step *)

\* the retained entries of the payload, in order
RetainedBuckets == SelectSeq(buckets, LAMBDA b : b.modelId # Absent)

\* the entry's explicit fraction, normalized (missing when it has none)
ExplicitFraction(b) ==
  normalizeQuotaFraction(CoalesceRaw(b.fraction.remainingFraction, b.fraction.remaining_fraction))

\* the entry's remaining amount (missing when it has none)
AmountOf(b) ==
  normalizeNumberValue(CoalesceRaw(b.amount.remainingAmount, b.amount.remaining_amount))

\* C10: for every retained bucket, remainingFraction is the normalized explicit
\* fraction when there is one; else with a remaining amount it is 0 when the
\* amount is <= 0 and null when it is > 0 (reset time or not); else it is 0 with
\* a reset time and null without.
C10_RemainingFraction ==
  geminiPc = "done" =>
    /\ Len(parsedBuckets) = Len(RetainedBuckets)
    /\ \A k \in 1..Len(parsedBuckets) :
         LET b == RetainedBuckets[k]
             got == parsedBuckets[k].remainingFraction
         IN  /\ ExplicitFraction(b) # {} => got = ExplicitFraction(b)
             /\ (ExplicitFraction(b) = {} /\ AmountOf(b) # {})
                  => \A n \in AmountOf(b) : /\ n <= 0 => got = {0}
                                            /\ n > 0 => got = {}
             /\ (ExplicitFraction(b) = {} /\ AmountOf(b) = {})
                  => /\ b.resetTime # Absent => got = {0}
                     /\ b.resetTime = Absent => got = {}

C10_Witness ==
  /\ geminiPc = "done"
  /\ \E k \in 1..Len(parsedBuckets) :
       /\ ExplicitFraction(RetainedBuckets[k]) = {}
       /\ AmountOf(RetainedBuckets[k]) = {5}
       /\ RetainedBuckets[k].resetTime # Absent
       /\ parsedBuckets[k].remainingFraction = {}
  /\ \E k \in 1..Len(parsedBuckets) :
       /\ ExplicitFraction(RetainedBuckets[k]) = {}
       /\ AmountOf(RetainedBuckets[k]) = {0}
       /\ parsedBuckets[k].remainingFraction = {0}

\* the entry's explicit fraction as the payload spells it
RawFraction(b) == CoalesceRaw(b.fraction.remainingFraction, b.fraction.remaining_fraction)

\* C24: every parsed bucket has remainingFraction null or within [0,1] (0..100
\* hundredths), also when the explicit fraction of its entry is negative,
\* greater than 1 or not a number.
C24_FractionInRange ==
  geminiPc = "done" =>
    \A k \in 1..Len(parsedBuckets) :
      \/ parsedBuckets[k].remainingFraction = {}
      \/ \E n \in 0..100 : parsedBuckets[k].remainingFraction = {n}

C24_Witness ==
  /\ geminiPc = "done"
  /\ Len(parsedBuckets) = 2
  /\ RawFraction(RetainedBuckets[1]) = RawNumber(150)
  /\ AmountOf(RetainedBuckets[1]) = {-1}
  /\ parsedBuckets[1].remainingFraction = {0}
  /\ RawFraction(RetainedBuckets[2]) \in {RawNumber(-50), RawText}
  /\ parsedBuckets[2].remainingFraction = {}

-----------------------------------------------------------------------------
(* Properties of the provider registry and the orchestrated pass *)

\* the credential has an entry in the provider's state map
HasEntry(p, c) == quotaStore[p][c].status # "idle"

\* C11: the filterFn of each registry entry rejects every disabled credential,
\* so a disabled credential is never dispatched and never has an entry in any
\* provider's state map.
C11_DisabledNeverSelected ==
  /\ \A p \in Providers : \A f \in CredentialKinds : f.disabled => ~FilterFn(p, f)
  /\ \A p \in Providers : \A c \in Credentials :
       catalog[c].disabled
         => /\ <<p, c>> \notin inflight
            /\ c \notin dispatched[p]
            /\ ~HasEntry(p, c)

C11_Witness ==
  /\ inflight = {}
  /\ \E c, d \in Credentials :
       /\ catalog[c].type = "codex" /\ catalog[c].disabled
       /\ catalog[d].type = "codex" /\ ~catalog[d].disabled
       /\ dispatched["codex"] = {d}
       /\ HasEntry("codex", d) /\ ~HasEntry("codex", c)

\* C12 as stated: the filterFn of each of the three registry entries rejects
\* every runtime-only credential, so none is ever dispatched by any provider.
C12_RuntimeOnlyNeverSelected ==
  /\ \A p \in Providers : \A f \in CredentialKinds : f.runtimeOnly => ~FilterFn(p, f)
  /\ \A p \in Providers : \A c \in Credentials :
       catalog[c].runtimeOnly => (<<p, c>> \notin inflight /\ c \notin dispatched[p])

\* C12 as amended: only the Gemini-CLI filterFn rejects runtime-only
\* credentials, so none is ever dispatched for Gemini-CLI; the Antigravity and
\* Codex filterFn select every credential of their type that is not disabled,
\* runtime-only or not.
C12_RuntimeOnlyRejectedByGeminiCli ==
  /\ \A f \in CredentialKinds : f.runtimeOnly => ~FilterFn("gemini-cli", f)
  /\ \A c \in Credentials :
       catalog[c].runtimeOnly
         => (<<"gemini-cli", c>> \notin inflight /\ c \notin dispatched["gemini-cli"])
  /\ \A p \in {"antigravity", "codex"} : \A f \in CredentialKinds :
       FilterFn(p, f) <=> (f.type = p /\ ~f.disabled)

C12_Witness ==
  /\ inflight = {}
  /\ \E c, d \in Credentials :
       /\ catalog[c].type = "gemini-cli" /\ catalog[c].runtimeOnly /\ ~catalog[c].disabled
       /\ catalog[d].type = "antigravity" /\ catalog[d].runtimeOnly /\ ~catalog[d].disabled
       /\ dispatched["gemini-cli"] = {} /\ ~HasEntry("gemini-cli", c)
       /\ dispatched["antigravity"] = {d} /\ HasEntry("antigravity", d)
  /\ passes = 2

\* C13: a credential's entry holds the Loading state from the moment its fetch
\* is dispatched until the fetch settles; the terminal state of a pass is only
\* ever written over Loading.
C13_LoadingBeforeTerminal ==
  [][ \A p \in Providers : \A c \in Credentials :
        /\ <<p, c>> \in inflight' => quotaStore'[p][c].status = "loading"
        /\ (<<p, c>> \in inflight /\ <<p, c>> \notin inflight')
             => /\ quotaStore[p][c].status = "loading"
                /\ quotaStore'[p][c].status \in {"success", "error"} ]_vars

C13_Witness ==
  \E p \in Providers : \E c, d \in Credentials :
    /\ <<p, c>> \in inflight /\ quotaStore[p][c].status = "loading"
    /\ <<p, d>> \notin inflight /\ d \in dispatched[p]
    /\ quotaStore[p][d].status = "error" /\ quotaStore[p][d].error = "missing_auth_index"

\* C14: once the pass of a provider has settled, every credential it
\* dispatched has an entry that is Success or Error; an entry is Loading only
\* while its fetch is outstanding.
C14_TerminalAfterPass ==
  \A p \in Providers :
    /\ (\A c \in Credentials : <<p, c>> \notin inflight)
         => \A c \in dispatched[p] : quotaStore[p][c].status \in {"success", "error"}
    /\ \A c \in Credentials :
         quotaStore[p][c].status = "loading" => <<p, c>> \in inflight

C14_Witness ==
  /\ inflight = {}
  /\ \E p \in Providers : \E c, d \in Credentials :
       /\ dispatched[p] = {c, d}
       /\ quotaStore[p][c].status = "success"
       /\ quotaStore[p][d].status = "error"

\* C15: when the fetch of one credential fails, only that credential's entry
\* changes; every other entry, every other outstanding fetch and the set of
\* dispatched credentials are left as they were.
C15_FailureIsLocal ==
  [][ \A p \in Providers : \A c \in Credentials :
        (<<p, c>> \in inflight /\ <<p, c>> \notin inflight'
           /\ quotaStore'[p][c].status = "error")
          => /\ \A q \in Providers : \A d \in Credentials :
                  <<q, d>> # <<p, c>>
                    => /\ quotaStore'[q][d] = quotaStore[q][d]
                       /\ <<q, d>> \in inflight <=> <<q, d>> \in inflight'
             /\ dispatched' = dispatched
             /\ catalog' = catalog ]_vars

C15_Witness ==
  \E p \in Providers : \E c, d \in Credentials :
    /\ c # d
    /\ quotaStore[p][c].status = "error"
    /\ <<p, d>> \in inflight /\ quotaStore[p][d].status = "loading"

-----------------------------------------------------------------------------
(* Properties of the QuickStartPage API-key cache *)

\* the call is invoked in this step
Invoked(id) == calls[id].kind = "none" /\ calls'[id].kind # "none"

\* C16 as stated: every invocation of fetchModels with forceRefresh = true
\* empties apiKeysCache, in every connection state: after it the cache holds
\* nothing, or only the keys resolved anew from the configuration.
C16_ForcedRefreshEmptiesCache ==
  [][ \A id \in CallIds :
        (Invoked(id) /\ calls'[id].kind = "fetchModels" /\ calls'[id].force)
          => apiKeysCache' \in {<<>>, normalizeApiKeyList(configApiKeys)} ]_vars

\* C17 as stated: since the cache was last emptied, apiKeysApi.list() has been
\* called at most once and the cache has been assigned at most once.
C17_PopulatedAtMostOnce == listCalls <= 1 /\ assignments <= 1

\* the cache was emptied in this step
Emptied == invalidations' # invalidations

\* C18: a call of resolveApiKeysForModels that finds the cache non-empty
\* returns the cached list and consults neither source; with an empty cache a
\* non-empty normalized key list of the configuration is cached and returned
\* without the remote listing; the listing is called only when the cache is
\* empty and the configuration yields no key; its normalized answer is cached
\* only if non-empty, an empty or failed listing assigning nothing.
C18_FirstNonEmptySourceWins ==
  [][ /\ \A id \in CallIds :
           (Invoked(id) /\ calls'[id].pc = "list")
             => /\ normalizeApiKeyList(configApiKeys') = <<>>
                /\ apiKeysCache' = <<>>
      /\ \A id \in CallIds :
           (Invoked(id) /\ calls'[id].pc \in {"models", "done"})
             => /\ calls'[id].keys = apiKeysCache'
                /\ apiKeysCache' # <<>>
                /\ IF apiKeysCache # <<>> /\ ~Emptied
                   THEN apiKeysCache' = apiKeysCache /\ assignments' = assignments
                   ELSE apiKeysCache' = normalizeApiKeyList(configApiKeys')
      /\ Cardinality({id \in CallIds : Invoked(id) /\ calls'[id].pc = "list"})
           = listCalls' - (IF Emptied THEN 0 ELSE listCalls)
      /\ \A id \in CallIds :
           (calls[id].pc = "list" /\ calls'[id].pc # "list")
             => /\ listCalls' = listCalls
                /\ IF calls'[id].keys # <<>>
                   THEN apiKeysCache' = calls'[id].keys /\ assignments' = assignments + 1
                   ELSE apiKeysCache' = apiKeysCache /\ assignments' = assignments ]_vars

C18_Witness ==
  /\ apiKeysCache # <<>>
  /\ normalizeApiKeyList(configApiKeys) \notin {<<>>, apiKeysCache}
  /\ listCalls = 1
  /\ assignments = 1
  /\ \E id \in CallIds :
       /\ calls[id].kind = "loadApiKey" /\ calls[id].pc = "done"
       /\ calls[id].keys = apiKeysCache

\* C29 as stated: the listing of a resolve call that was in flight when a
\* forced refresh emptied the cache is never written to the cache afterwards,
\* so the cache only ever holds keys of a resolution started after the refresh.
C29_NoStaleWrite == cacheWriter \notin staleListings

-----------------------------------------------------------------------------
(* Properties of resolveAntigravityProjectId *)

\* the ids the three places hold, in the order the claim reads them: every
\* non-empty trimmed value of project_id and projectId of each place
RECURSIVE FirstNonEmpty(_)
FirstNonEmpty(values) ==
  IF values = <<>> THEN Absent
  ELSE IF normalizeStringValue(Head(values)) # Absent THEN normalizeStringValue(Head(values))
  ELSE FirstNonEmpty(Tail(values))

MembersOf(place) == IF place.isObject THEN <<place.project_id, place.projectId>> ELSE <<>>

\* C23 as stated: the call always resolves with a non-empty project id: the
\* first non-empty value among the top-level project_id / projectId, then
\* those of `installed`, then those of `web`; the hard-coded default when the
\* download fails, the text is empty or not JSON, or no place holds an id.
C23_FirstNonEmptyIdOrDefault ==
  projectPc = "done"
    => /\ resolvedProjectId \notin {Absent, Null, "", " "}
       /\ LET d == projectDownload
              first == FirstNonEmpty(MembersOf(d.top) \o MembersOf(d.installed) \o MembersOf(d.web))
          IN  resolvedProjectId =
                IF d.kind # "value" \/ first = Absent THEN DEFAULT_ANTIGRAVITY_PROJECT_ID
                ELSE first

-----------------------------------------------------------------------------
(* Properties of the Claude Code configuration handlers *)

\* the request served in this step is a PUT that responds 200
PutResponds200 ==
  /\ configRequests' = configRequests + 1
  /\ configResponse'.op = "PUT"
  /\ configResponse'.code = 200

\* C20 as stated: after a PUT that responds 200, every key other than the
\* three model fields that the settings file held before the request is in
\* the file with the same value, whatever the file held before.
C20_OtherKeysPreserved ==
  [][ PutResponds200
        => \A k \in KeyNames \ ModelKeys :
             settingsFile.entries[k] # JsonAbsent
               => /\ settingsFile'.syntax = "object"
                  /\ settingsFile'.entries[k] = settingsFile.entries[k] ]_vars

\* the field of the body of the latest PUT that belongs to a model key
InputField(k) ==
  IF k = "opus_model" THEN configRequest.input.opus
  ELSE IF k = "sonnet_model" THEN configRequest.input.sonnet
  ELSE configRequest.input.haiku

\* C25: a GET that directly follows a PUT that responded 200, and that can
\* resolve the home directory and read the file, responds 200 with the three
\* fields of the PUT with surrounding whitespace trimmed; a field that is
\* empty after trimming is not in the settings file and reads back as "".
C25_RoundTrip ==
  ( /\ configRequest.op = "GET"
    /\ configRequest.afterOp = "PUT" /\ configRequest.afterCode = 200
    /\ configRequest.env.home /\ configRequest.env.read )
    => /\ configResponse =
            ConfigResponse("GET", 200, TrimSpace(InputField("opus_model")),
                           TrimSpace(InputField("sonnet_model")),
                           TrimSpace(InputField("haiku_model")))
       /\ \A k \in ModelKeys :
            TrimSpace(InputField(k)) = "" => settingsFile.entries[k] = JsonAbsent

C25_Witness ==
  /\ configRequest.op = "GET"
  /\ configRequest.afterOp = "PUT" /\ configRequest.afterCode = 200
  /\ configRequest.input.opus = " m2 " /\ configRequest.input.sonnet = " "
  /\ configRequest.input.haiku = ""
  /\ configResponse = ConfigResponse("GET", 200, "m2", "", "")
  /\ settingsFile.syntax = "object"
  /\ settingsFile.entries["sonnet_model"] = JsonAbsent

\* the request served in this step
Served(op) == configRequests' = configRequests + 1 /\ configRequest'.op = op

EmptyConfig == ConfigResponse("GET", 200, "", "", "")

\* C26: a PUT whose body cannot be bound responds 400, and a PUT (with a
\* bound body) whose settings file exists but cannot be read responds 500, the
\* file being unchanged in both cases; a GET responds 200 with the three
\* fields empty when the file is missing or read and not valid JSON; a GET
\* responds 500 only when the file exists and cannot be read.
C26_ErrorOutcomes ==
  [][ /\ (Served("PUT") /\ ~configRequest'.input.bound)
           => (configResponse'.code = 400 /\ settingsFile' = settingsFile)
      /\ ( /\ Served("PUT") /\ configRequest'.input.bound
           /\ settingsFile.syntax # "missing" /\ ~configRequest'.env.read )
           => (configResponse'.code = 500 /\ settingsFile' = settingsFile)
      /\ ( /\ Served("GET")
           /\ \/ settingsFile.syntax = "missing"
              \/ settingsFile.syntax = "malformed" /\ configRequest'.env.read )
           => configResponse' = EmptyConfig
      /\ (Served("GET") /\ configResponse'.code = 500)
           => (settingsFile.syntax # "missing" /\ ~configRequest'.env.read)
      /\ Served("GET") => settingsFile' = settingsFile ]_vars

C26_Witness ==
  /\ configRequest.op = "PUT" /\ configRequest.input.bound
  /\ configRequest.env.home /\ configRequest.env.mkdir /\ ~configRequest.env.read
  /\ settingsFile.syntax = "object"
  /\ settingsFile.entries["opus_model"] = JsonString("m0")
  /\ configRequest.input.opus = "m1"
  /\ configResponse = ConfigResponse("PUT", 500, "", "", "")

====
